---- MODULE Spec2Model ----
(***************************************************************************)
(* The multi-corpus retrieval engine of backend/api/retrieval.py:          *)
(* the corpus registry and its load, the lazily loaded embedding model,    *)
(* the per-corpus nearest-neighbour search with neighbour merging, and     *)
(* the cross-corpus selection and fusion of retrieve(); and the POST /ask   *)
(* handler of backend/api/main.py over the session store of                *)
(* backend/api/session_store.py.                                           *)
(*                                                                         *)
(* Python lists are sequences; array positions keep Python's 0-based       *)
(* numbering (At reads position idx of a list).  A dict is the sequence of *)
(* its values in insertion order.  Names are sequences of characters so    *)
(* that str.lower() is computed, not assumed.  Optional[str] is <<>> for   *)
(* None and <<s>> for the string s.                                        *)
(***************************************************************************)
EXTENDS Integers, Sequences, FiniteSets, TLC

VARIABLES
    corpora,          \* RetrievalEngine._corpora, in insertion order
    embedding_model,  \* RetrievalEngine._embedding_model: "None" or "model"
    n_constructed,    \* how many times SentenceTransformer(...) was constructed
    call,             \* arguments of the last retrieve(): <<>> or <<[question, bank, k]>>
    searched,         \* corpora_to_search of the last retrieve(), as corpus names
    found,            \* all_results of the last retrieve() after the first sort
    result,           \* the list the last retrieve() returned
    outcome,          \* "none", "returned" or the exception the last retrieve() raised
    storage,          \* the storage root: [exists, entries] as _load_all_corpora sees it
    load_pc,          \* "start", "loop", "done" or the exception that ended the load
    load_i,           \* how many entries of os.listdir the load loop has consumed
    tpc,              \* per request thread: where it is inside _encode_query
    merge_corpus,     \* the corpus _merge_neighbors was last called on
    merge_idx,        \* the idx it was called with (-1: not called yet)
    merged,           \* what it returned
    sessions,         \* SessionStore._sessions: session_id -> [history, bank]
    ask,              \* per request thread: the frame of its ask_question call
    n_asks,           \* how many /ask requests have arrived; the next request's number
    appended_by,      \* per session: the request number that appended each history entry
    failures          \* the requests that ended in an error, as <<number, cause>>

vars == <<corpora, embedding_model, n_constructed, call, searched, found, result,
          outcome, storage, load_pc, load_i, tpc, merge_corpus, merge_idx, merged,
          sessions, ask, n_asks, appended_by, failures>>

retrieveVars == <<call, searched, found, result, outcome>>
loadVars == <<storage, load_pc, load_i>>
mergeVars == <<merge_corpus, merge_idx, merged>>
askVars == <<sessions, ask, n_asks, appended_by, failures>>

----------------------------------------------------------------------------
(* Bounds of the model                                                     *)

MaxChunks == 3      \* chunks per corpus in the retrieval fixtures
MaxVec == 3         \* index vectors and query embeddings are points 0..MaxVec
MaxK == 2           \* top_k_per_index ranges over 1..MaxK
MaxSeed == 2        \* storage fixtures 0..MaxSeed
NumThreads == 3     \* concurrent request threads
MaxEntries == 3     \* entries of the storage root in the load runs
MaxMergeChunks == 3 \* chunks of the corpus in the _merge_neighbors runs
MaxChunkId == 2     \* chunk_id values 0..MaxChunkId in the _merge_neighbors runs
MaxAsks == 2        \* /ask requests in one run of concurrent requests
MaxSeqAsks == 3     \* /ask requests in one run of requests served one after another

(* Program constants                                                       *)

MAX_BANKS_WHEN_NO_BANK_SPECIFIED == 5

----------------------------------------------------------------------------
(* Strings                                                                 *)

\* str.lower() on one character
LowerChar(c) ==
    CASE c = "A" -> "a" [] c = "C" -> "c" [] c = "D" -> "d" [] c = "F" -> "f"
      [] c = "H" -> "h" [] c = "I" -> "i" [] c = "K" -> "k" [] c = "M" -> "m"
      [] c = "N" -> "n" [] c = "O" -> "o" [] c = "S" -> "s" [] c = "T" -> "t"
      [] c = "X" -> "x" [] c = "B" -> "b"
      [] OTHER -> c

\* str.lower()
Lower(s) == [i \in DOMAIN s |-> LowerChar(s[i])]

\* the literal "common"
COMMON == <<"c", "o", "m", "m", "o", "n">>

None == <<>>
Some(s) == <<s>>

\* Python truthiness of an Optional[str]: None and "" are falsy
Truthy(bank) == bank # None /\ bank[1] # <<>>

\* list[idx] with Python's 0-based idx
At(list, idx) == list[idx + 1]

\* list[:n]
Take(list, n) == SubSeq(list, 1, IF n < Len(list) THEN n ELSE Len(list))

NL == "\n"

\* sep.join(texts) for texts that are sequences of characters
RECURSIVE Join(_)
Join(texts) ==
    IF texts = <<>> THEN <<>>
    ELSE IF Len(texts) = 1 THEN texts[1]
    ELSE texts[1] \o <<NL>> \o Join(Tail(texts))

----------------------------------------------------------------------------
(* Corpora                                                                 *)

\* CorpusIndex(name, index, chunks, metadatas).  The IndexFlatL2 is the
\* sequence of its vectors (one-dimensional points), so index.ntotal is
\* Len(index).
CorpusIndex(name, index, chunks, metadatas) ==
    [name |-> name, index |-> index, chunks |-> chunks, metadatas |-> metadatas]

\* the names of a list of corpora
NamesOf(cs) == [i \in DOMAIN cs |-> cs[i].name]

\* self._corpora.get(name): <<>> for None, else <<corpus>>
CorporaGet(name) == SelectSeq(corpora, LAMBDA c: c.name = name)

\* RetrievalEngine.available_banks
available_banks ==
    NamesOf(SelectSeq(corpora, LAMBDA c: Lower(c.name) # COMMON))

----------------------------------------------------------------------------
(* _merge_neighbors                                                        *)

\* merge_neighbors looking at source_file only, not at chunk_id
merge_neighbors_same_file(corpus, idx) ==
    LET current_file == At(corpus.metadatas, idx).source_file
        previous ==
            IF idx - 1 >= 0 /\ At(corpus.metadatas, idx - 1).source_file = current_file
            THEN <<At(corpus.chunks, idx - 1)>> ELSE <<>>
        following ==
            IF idx + 1 < Len(corpus.chunks)
               /\ At(corpus.metadatas, idx + 1).source_file = current_file
            THEN <<At(corpus.chunks, idx + 1)>> ELSE <<>>
    IN Join(previous \o <<At(corpus.chunks, idx)>> \o following)

merge_neighbors(corpus, idx) ==
    LET current_meta == At(corpus.metadatas, idx)
        current_file == current_meta.source_file
        current_chunk_id == current_meta.chunk_id
        previous ==
            IF idx - 1 >= 0
            THEN LET prev_meta == At(corpus.metadatas, idx - 1)
                 IN IF prev_meta.source_file = current_file
                       /\ prev_meta.chunk_id = current_chunk_id - 1
                    THEN <<At(corpus.chunks, idx - 1)>>
                    ELSE <<>>
            ELSE <<>>
        following ==
            IF idx + 1 < Len(corpus.chunks)
            THEN LET next_meta == At(corpus.metadatas, idx + 1)
                 IN IF next_meta.source_file = current_file
                       /\ next_meta.chunk_id = current_chunk_id + 1
                    THEN <<At(corpus.chunks, idx + 1)>>
                    ELSE <<>>
            ELSE <<>>
        texts == previous \o <<At(corpus.chunks, idx)>> \o following
    IN Join(texts)

----------------------------------------------------------------------------
(* _search_single_corpus                                                   *)

\* squared L2 distance of IndexFlatL2, in one dimension
Distance(v, q) == (v - q) * (v - q)

\* the distance faiss reports beside the sentinel index -1: larger than any real one
NoDistance == (MaxVec + 2) * (MaxVec + 2)

\* corpus.index.search(query_embedding, top_k): the top_k nearest positions by
\* ascending distance (equal distances: lower position first), padded with
\* the sentinel -1 when the index holds fewer than top_k vectors
IndexSearch(index, q, top_k) ==
    LET N == Len(index)
        d(i) == Distance(At(index, i), q)
        Before(j, i) == d(j) < d(i) \/ (d(j) = d(i) /\ j < i)
        rank(i) == Cardinality({j \in 0..(N - 1) : Before(j, i)})
        nth(r) == CHOOSE i \in 0..(N - 1) : rank(i) = r - 1
    IN [r \in 1..top_k |->
          IF r <= N THEN [dist |-> d(nth(r)), idx |-> nth(r)]
          ELSE [dist |-> NoDistance, idx |-> -1]]

\* score = float(1 / (1 + dist)), kept as an exact fraction
Score(dist) == [num |-> 1, den |-> 1 + dist]
ScoreLess(a, b) == a.num * b.den < b.num * a.den

\* the dict appended to results for one (dist, idx) pair
ResultRecord(corpus, dist, idx) ==
    LET meta == At(corpus.metadatas, idx)
    IN [score |-> Score(dist),
        bank |-> corpus.name,
        document_name |-> meta.source_file,
        chunk_id |-> meta.chunk_id,
        raw_chunk |-> At(corpus.chunks, idx),
        merged_text |-> merge_neighbors(corpus, idx)]

search_single_corpus(corpus, query_embedding, top_k) ==
    LET hits == IndexSearch(corpus.index, query_embedding, top_k)
        valid == SelectSeq(hits, LAMBDA h: h.idx # -1)
    IN [n \in DOMAIN valid |-> ResultRecord(corpus, valid[n].dist, valid[n].idx)]

\* whether a list access of _search_single_corpus or _merge_neighbors is out of
\* range for some hit (IndexError)
SearchRaises(corpus, query_embedding, top_k) ==
    LET hits == IndexSearch(corpus.index, query_embedding, top_k)
    IN \E n \in DOMAIN hits :
          /\ hits[n].idx # -1
          /\ \/ hits[n].idx >= Len(corpus.metadatas)
             \/ hits[n].idx >= Len(corpus.chunks)
             \/ (hits[n].idx + 1 < Len(corpus.chunks)
                 /\ hits[n].idx + 1 >= Len(corpus.metadatas))

----------------------------------------------------------------------------
(* retrieve                                                                *)

\* list.sort(key=score, reverse=True): a stable sort, so records of equal
\* score keep their order
RECURSIVE InsertByScore(_, _)
InsertByScore(sorted, r) ==
    IF sorted = <<>> THEN <<r>>
    ELSE IF ScoreLess(Head(sorted).score, r.score) THEN <<r>> \o sorted
    ELSE <<Head(sorted)>> \o InsertByScore(Tail(sorted), r)

RECURSIVE SortByScoreDesc(_)
SortByScoreDesc(list) ==
    IF list = <<>> THEN <<>>
    ELSE InsertByScore(SortByScoreDesc(SubSeq(list, 1, Len(list) - 1)), list[Len(list)])

\* CorporaToSearch with the hint ignored: common and every bank, whatever the hint
CorporaToSearchEveryBank(bank) ==
    CorporaGet(COMMON) \o SelectSeq(corpora, LAMBDA c: Lower(c.name) # COMMON)

\* CorporaToSearch comparing the names as they are, without lower()
CorporaToSearchNoLower(bank) ==
    IF Truthy(bank)
    THEN Take(SelectSeq(corpora, LAMBDA c: c.name = bank[1]), 1) \o CorporaGet(COMMON)
    ELSE CorporaGet(COMMON) \o SelectSeq(corpora, LAMBDA c: Lower(c.name) # COMMON)

\* CorporaToSearch treating a hint that matches nothing as no hint
CorporaToSearchFallback(bank) ==
    IF Truthy(bank) /\ \E i \in DOMAIN corpora : Lower(corpora[i].name) = Lower(bank[1])
    THEN Take(SelectSeq(corpora, LAMBDA c: Lower(c.name) = Lower(bank[1])), 1)
         \o CorporaGet(COMMON)
    ELSE CorporaGet(COMMON) \o SelectSeq(corpora, LAMBDA c: Lower(c.name) # COMMON)

\* corpora_to_search as retrieve builds it (lines 164-188)
CorporaToSearch(bank) ==
    LET common_corpus == CorporaGet(COMMON)
    IN IF Truthy(bank)
       THEN LET bank_key == Lower(bank[1])
                \* the loop breaks at the first name whose lowercase is bank_key
                bank_corpus ==
                    Take(SelectSeq(corpora, LAMBDA c: Lower(c.name) = bank_key), 1)
            IN bank_corpus \o common_corpus
       ELSE common_corpus \o SelectSeq(corpora, LAMBDA c: Lower(c.name) # COMMON)

\* all_results before sorting: the per-corpus results, concatenated in order
RECURSIVE AllResults(_, _, _)
AllResults(corpora_to_search, query_emb, top_k) ==
    IF corpora_to_search = <<>> THEN <<>>
    ELSE search_single_corpus(Head(corpora_to_search), query_emb, top_k)
         \o AllResults(Tail(corpora_to_search), query_emb, top_k)

\* the keys of bank_to_results in insertion order: each bank at its first record
RECURSIVE BankKeys(_)
BankKeys(rs) ==
    IF rs = <<>> THEN <<>>
    ELSE LET rest == BankKeys(SubSeq(rs, 1, Len(rs) - 1))
             b == rs[Len(rs)].bank
         IN IF \E i \in DOMAIN rest : rest[i] = b THEN rest ELSE Append(rest, b)

\* bank_to_results[b]
BankResults(rs, b) == SelectSeq(rs, LAMBDA r: r.bank = b)

\* max(r["score"] for r in rs), rs not empty
MaxScore(rs) ==
    LET i == CHOOSE i \in DOMAIN rs : \A j \in DOMAIN rs : ~ScoreLess(rs[i].score, rs[j].score)
    IN rs[i].score

\* SelectedBanks without the slice [:MAX_BANKS_WHEN_NO_BANK_SPECIFIED]
SelectedBanksAll(other_results) ==
    LET keys == BankKeys(other_results)
        bank_scores ==
            [i \in DOMAIN keys |->
                [bank |-> keys[i], score |-> MaxScore(BankResults(other_results, keys[i]))]]
        ranked == SortByScoreDesc(bank_scores)
    IN [i \in DOMAIN ranked |-> ranked[i].bank]

\* bank_scores after its sort, and the banks kept (lines 216-225)
SelectedBanks(other_results) ==
    LET keys == BankKeys(other_results)
        bank_scores ==
            [i \in DOMAIN keys |->
                [bank |-> keys[i], score |-> MaxScore(BankResults(other_results, keys[i]))]]
        ranked == SortByScoreDesc(bank_scores)
    IN [i \in DOMAIN Take(ranked, MAX_BANKS_WHEN_NO_BANK_SPECIFIED) |-> ranked[i].bank]

RECURSIVE BankSlices(_, _, _)
BankSlices(other_results, selected_banks, top_k) ==
    IF selected_banks = <<>> THEN <<>>
    ELSE Take(BankResults(other_results, Head(selected_banks)), top_k)
         \o BankSlices(other_results, Tail(selected_banks), top_k)

\* the no-bank branch of retrieve (lines 208-235) on the sorted all_results
FilterUnhinted(all_results, top_k) ==
    LET common_results == SelectSeq(all_results, LAMBDA r: Lower(r.bank) = COMMON)
        other_results == SelectSeq(all_results, LAMBDA r: Lower(r.bank) # COMMON)
        selected_banks == SelectedBanks(other_results)
        filtered_results ==
            Take(common_results, top_k) \o BankSlices(other_results, selected_banks, top_k)
    IN SortByScoreDesc(filtered_results)

\* Returned with the hinted list cut to the top_k best records overall
ReturnedTopKOverall(all_results, bank, top_k, corpora_to_search) ==
    IF Truthy(bank)
    THEN Take(all_results, top_k)
    ELSE FilterUnhinted(all_results, top_k)

\* what retrieve returns for sorted all_results (lines 200-235)
Returned(all_results, bank, top_k, corpora_to_search) ==
    IF Truthy(bank)
    THEN Take(all_results, top_k * Len(corpora_to_search))
    ELSE FilterUnhinted(all_results, top_k)

\* _load_embedding_model, run by one caller at a time
load_embedding_model ==
    IF embedding_model = "None"
    THEN /\ embedding_model' = "model"
         /\ n_constructed' = n_constructed + 1
    ELSE UNCHANGED <<embedding_model, n_constructed>>

\* retrieve raising when the selection of corpora is empty, instead of
\* returning an empty list
retrieve_raising_on_no_corpus(question, bank, top_k_per_index) ==
    LET query_emb == question
        corpora_to_search == CorporaToSearch(bank)
        raises == \E i \in DOMAIN corpora_to_search :
                     SearchRaises(corpora_to_search[i], query_emb, top_k_per_index)
        all_results == SortByScoreDesc(AllResults(corpora_to_search, query_emb, top_k_per_index))
    IN /\ load_pc = "done"
       /\ outcome = "none"
       /\ load_embedding_model
       /\ call' = <<[question |-> question, bank |-> bank, k |-> top_k_per_index]>>
       /\ searched' = NamesOf(corpora_to_search)
       /\ IF raises \/ corpora_to_search = <<>>
          THEN /\ outcome' = IF raises THEN "IndexError" ELSE "ValueError"
               /\ found' = <<>>
               /\ result' = <<>>
          ELSE /\ outcome' = "returned"
               /\ found' = all_results
               /\ result' = Returned(all_results, bank, top_k_per_index, corpora_to_search)
       /\ UNCHANGED <<corpora, loadVars, tpc, mergeVars, askVars>>

\* retrieve(question, bank, top_k_per_index); the question is the point its
\* embedding is (the embedding model is an external function of the text)
retrieve(question, bank, top_k_per_index) ==
    LET query_emb == question
        corpora_to_search == CorporaToSearch(bank)
        raises == \E i \in DOMAIN corpora_to_search :
                     SearchRaises(corpora_to_search[i], query_emb, top_k_per_index)
        all_results == SortByScoreDesc(AllResults(corpora_to_search, query_emb, top_k_per_index))
    IN /\ load_pc = "done"
       /\ outcome = "none"
       /\ load_embedding_model
       /\ call' = <<[question |-> question, bank |-> bank, k |-> top_k_per_index]>>
       /\ searched' = NamesOf(corpora_to_search)
       /\ IF raises
          THEN /\ outcome' = "IndexError"
               /\ found' = <<>>
               /\ result' = <<>>
          ELSE /\ outcome' = "returned"
               /\ found' = all_results
               /\ result' = Returned(all_results, bank, top_k_per_index, corpora_to_search)
       /\ UNCHANGED <<corpora, loadVars, tpc, mergeVars, askVars>>

\* the caller takes what retrieve returned (or its exception); the frame of the
\* call is gone and the engine is ready for the next call
RetrieveReturn ==
    /\ outcome # "none"
    /\ call' = <<>>
    /\ searched' = <<>>
    /\ found' = <<>>
    /\ result' = <<>>
    /\ outcome' = "none"
    /\ UNCHANGED <<corpora, embedding_model, n_constructed, loadVars, tpc, mergeVars, askVars>>

----------------------------------------------------------------------------
(* The registries retrieve runs on: what _load_all_corpora leaves for a     *)
(* storage root written by build_indexes.py.  Folder names are arbitrary    *)
(* (any case; two names may differ in case only), every corpus has one      *)
(* vector per chunk, and chunk_id restarts at 0 in every source file        *)
(* (build_corpus_for_folder, lines 47-55).                                  *)

CommonCap == <<"C", "o", "m", "m", "o", "n">>
hdfc == <<"h", "d", "f", "c">>
HDFC == <<"H", "D", "F", "C">>
sbi == <<"s", "b", "i">>
icici == <<"i", "c", "i", "c", "i">>
axis == <<"a", "x", "i", "s">>
kotak == <<"k", "o", "t", "a", "k">>

\* the folder names, in one listing order of os.listdir
FolderNames == <<COMMON, CommonCap, hdfc, HDFC, sbi, icici, axis, kotak>>

Digit(n) == CASE n = 0 -> "0" [] n = 1 -> "1" [] n = 2 -> "2" [] n = 3 -> "3"
              [] n = 4 -> "4" [] OTHER -> "9"

\* the corpus of folder number u in storage fixture seed
FixtureSize(u, seed) ==
    IF seed = 0 THEN 1 + (u % MaxChunks) ELSE (u + seed) % (MaxChunks + 1)
FixtureSplit(u, seed) == 1 + ((u + seed) % 2)
FixtureVec(u, seed, i) == (3 * u + (seed + 2) * i + seed * seed) % (MaxVec + 1)
FixtureMeta(u, seed, i) ==
    IF i < FixtureSplit(u, seed)
    THEN [source_file |-> "a.pdf", chunk_id |-> i]
    ELSE [source_file |-> "b.pdf", chunk_id |-> i - FixtureSplit(u, seed)]
FixtureText(u, seed, i) ==
    <<IF i < FixtureSplit(u, seed) THEN "a" ELSE "b", Digit(FixtureMeta(u, seed, i).chunk_id)>>

FixtureCorpus(u, seed) ==
    LET N == FixtureSize(u, seed)
    IN CorpusIndex(FolderNames[u],
                   [n \in 1..N |-> FixtureVec(u, seed, n - 1)],
                   [n \in 1..N |-> FixtureText(u, seed, n - 1)],
                   [n \in 1..N |-> FixtureMeta(u, seed, n - 1)])

\* the folders `present`, listed in FolderNames order or in the reverse order
RECURSIVE FixtureRegistry(_, _, _, _)
FixtureRegistry(present, seed, reversed, u) ==
    IF u > Len(FolderNames) THEN <<>>
    ELSE LET rest == FixtureRegistry(present, seed, reversed, u + 1)
             here == IF u \in present THEN <<FixtureCorpus(u, seed)>> ELSE <<>>
         IN IF reversed THEN rest \o here ELSE here \o rest

Registries ==
    {FixtureRegistry(present, seed, reversed, 1) :
        present \in SUBSET (1..Len(FolderNames)), seed \in 0..MaxSeed, reversed \in BOOLEAN}

\* the routing hints tried: None, "", "hdfc", "HDFC", "Sbi", "common", "x"
Hints == {None, Some(<<>>), Some(hdfc), Some(HDFC), Some(<<"S", "b", "i">>),
          Some(COMMON), Some(<<"x">>)}

Questions == 0..MaxVec

NoStorage == [exists |-> TRUE, entries |-> <<>>]
NoCorpus == CorpusIndex(<<>>, <<>>, <<>>, <<>>)
Threads == 1..NumThreads

\* no /ask request yet: an empty session store and every thread idle
IdleFrame == [pc |-> "idle"]
NoAsk ==
    /\ sessions = [id \in {} |-> [history |-> <<>>, bank |-> None]]
    /\ ask = [t \in Threads |-> IdleFrame]
    /\ n_asks = 0
    /\ appended_by = [id \in {} |-> <<>>]
    /\ failures = {}

Init ==
    /\ corpora \in Registries
    /\ embedding_model = "None"
    /\ n_constructed = 0
    /\ call = <<>>
    /\ searched = <<>>
    /\ found = <<>>
    /\ result = <<>>
    /\ outcome = "none"
    /\ storage = NoStorage
    /\ load_pc = "done"
    /\ load_i = 0
    /\ tpc = [t \in Threads |-> "idle"]
    /\ merge_corpus = NoCorpus
    /\ merge_idx = -1
    /\ merged = <<>>
    /\ NoAsk

Next ==
    \/ \E question \in Questions, bank \in Hints, k \in 1..MaxK :
          retrieve(question, bank, k)
    \/ RetrieveReturn

Spec == Init /\ [][Next]_vars

----------------------------------------------------------------------------
(* _load_all_corpora over a storage root                                   *)

\* self._corpora[name] = corpus
DictSet(dict, name, corpus) ==
    IF \E i \in DOMAIN dict : dict[i].name = name
    THEN [i \in DOMAIN dict |-> IF dict[i].name = name THEN corpus ELSE dict[i]]
    ELSE Append(dict, corpus)

\* Loadable with `and` for `or`: skipped only when both artifacts are missing
LoadableEither(e) == e.is_dir /\ (e.has_index \/ e.has_meta)

\* an entry the loop does not skip (lines 43-51)
Loadable(e) == e.is_dir /\ e.has_index /\ e.has_meta

\* what reading the two artifacts of an entry raises (lines 54-56), or "ok"
ReadOutcome(e) ==
    IF ~e.has_index \/ ~e.index_ok THEN "RuntimeError"
    ELSE IF ~e.has_meta THEN "FileNotFoundError"
    ELSE IF ~e.meta_ok THEN "UnpicklingError"
    ELSE "ok"

LoadStart ==
    /\ load_pc = "start"
    /\ load_pc' = IF storage.exists THEN "loop" ELSE "FileNotFoundError"
    /\ UNCHANGED <<corpora, embedding_model, n_constructed, retrieveVars, storage,
                   load_i, tpc, mergeVars, askVars>>

\* one iteration of the loop over os.listdir(STORAGE_DIR)
LoadEntry ==
    /\ load_pc = "loop"
    /\ load_i < Len(storage.entries)
    /\ LET e == storage.entries[load_i + 1]
       IN IF ~Loadable(e)
          THEN /\ load_i' = load_i + 1
               /\ UNCHANGED <<corpora, load_pc>>
          ELSE IF ReadOutcome(e) # "ok"
          THEN /\ load_pc' = ReadOutcome(e)
               /\ UNCHANGED <<corpora, load_i>>
          ELSE /\ corpora' = DictSet(corpora, e.name,
                                     CorpusIndex(e.name, e.index, e.chunks, e.metadatas))
               /\ load_i' = load_i + 1
               /\ UNCHANGED load_pc
    /\ UNCHANGED <<embedding_model, n_constructed, retrieveVars, storage, tpc, mergeVars, askVars>>

LoadFinish ==
    /\ load_pc = "loop"
    /\ load_i = Len(storage.entries)
    /\ load_pc' = "done"
    /\ UNCHANGED <<corpora, embedding_model, n_constructed, retrieveVars, storage,
                   load_i, tpc, mergeVars, askVars>>

\* The storage roots of the load runs: up to MaxEntries entries of different
\* names, each a plain file, a folder missing artifacts, a folder with an
\* artifact that cannot be decoded, or a folder with both artifacts, whose
\* metadata and index may or may not have one item per chunk.
EntryNames == {COMMON, hdfc, HDFC, sbi}
EntryKinds == {"file", "no_index", "no_meta", "empty_dir", "corpus", "bad_index",
               "bad_meta", "short_metadatas", "short_index"}
Entry(name, kind) ==
    [name |-> name,
     is_dir |-> kind # "file",
     has_index |-> kind \notin {"file", "no_index", "empty_dir"},
     has_meta |-> kind \notin {"file", "no_meta", "empty_dir"},
     index_ok |-> kind # "bad_index",
     meta_ok |-> kind # "bad_meta",
     index |-> IF kind = "short_index" THEN <<0>> ELSE <<0, 1>>,
     chunks |-> <<FixtureText(1, 0, 0), FixtureText(1, 0, 1)>>,
     metadatas |-> IF kind = "short_metadatas" THEN <<FixtureMeta(1, 0, 0)>>
                   ELSE <<FixtureMeta(1, 0, 0), FixtureMeta(1, 0, 1)>>]
Listings ==
    UNION {{l \in [1..n -> {Entry(name, kind) : name \in EntryNames, kind \in EntryKinds}] :
              \A i, j \in 1..n : i # j => l[i].name # l[j].name} : n \in 0..MaxEntries}
Storages ==
    {[exists |-> FALSE, entries |-> <<>>]} \cup {[exists |-> TRUE, entries |-> l] : l \in Listings}

InitLoad ==
    /\ corpora = <<>>
    /\ embedding_model = "None"
    /\ n_constructed = 0
    /\ call = <<>>
    /\ searched = <<>>
    /\ found = <<>>
    /\ result = <<>>
    /\ outcome = "none"
    /\ storage \in Storages
    /\ load_pc = "start"
    /\ load_i = 0
    /\ tpc = [t \in Threads |-> "idle"]
    /\ merge_corpus = NoCorpus
    /\ merge_idx = -1
    /\ merged = <<>>
    /\ NoAsk

NextLoad == LoadStart \/ LoadEntry \/ LoadFinish

SpecLoad == InitLoad /\ [][NextLoad]_vars

----------------------------------------------------------------------------
(* _encode_query called by concurrent request threads (/ask is a plain     *)
(* def, which FastAPI runs on a thread pool; the engine is one module      *)
(* object).  Each step is one a thread switch can separate from the next.  *)

\* retrieve calls _encode_query, which calls _load_embedding_model
EncodeEnter(t) ==
    /\ tpc[t] = "idle"
    /\ tpc' = [tpc EXCEPT ![t] = "check"]
    /\ UNCHANGED <<corpora, embedding_model, n_constructed, retrieveVars, loadVars, mergeVars, askVars>>

\* if self._embedding_model is None
CheckModel(t) ==
    /\ tpc[t] = "check"
    /\ tpc' = [tpc EXCEPT ![t] = IF embedding_model = "None" THEN "construct" ELSE "encode"]
    /\ UNCHANGED <<corpora, embedding_model, n_constructed, retrieveVars, loadVars, mergeVars, askVars>>

\* self._embedding_model = SentenceTransformer(EMBEDDING_MODEL_NAME)
ConstructModel(t) ==
    /\ tpc[t] = "construct"
    /\ n_constructed' = n_constructed + 1
    /\ embedding_model' = "model"
    /\ tpc' = [tpc EXCEPT ![t] = "encode"]
    /\ UNCHANGED <<corpora, retrieveVars, loadVars, mergeVars, askVars>>

\* self._embedding_model.encode([text]); the call returns
EncodeText(t) ==
    /\ tpc[t] = "encode"
    /\ tpc' = [tpc EXCEPT ![t] = "idle"]
    /\ UNCHANGED <<corpora, embedding_model, n_constructed, retrieveVars, loadVars, mergeVars, askVars>>

InitEncode ==
    /\ corpora = <<>>
    /\ embedding_model = "None"
    /\ n_constructed = 0
    /\ call = <<>>
    /\ searched = <<>>
    /\ found = <<>>
    /\ result = <<>>
    /\ outcome = "none"
    /\ storage = NoStorage
    /\ load_pc = "done"
    /\ load_i = 0
    /\ tpc = [t \in Threads |-> "idle"]
    /\ merge_corpus = NoCorpus
    /\ merge_idx = -1
    /\ merged = <<>>
    /\ NoAsk

NextEncode ==
    \E t \in Threads : EncodeEnter(t) \/ CheckModel(t) \/ ConstructModel(t) \/ EncodeText(t)

SpecEncode == InitEncode /\ [][NextEncode]_vars

----------------------------------------------------------------------------
(* _merge_neighbors on its own, over corpora whose neighbouring chunks may  *)
(* or may not be of the same file and consecutive                          *)

MergeCall(idx) ==
    /\ idx \in 0..(Len(merge_corpus.chunks) - 1)
    /\ merge_idx' = idx
    /\ merged' = merge_neighbors(merge_corpus, idx)
    /\ UNCHANGED <<corpora, embedding_model, n_constructed, retrieveVars, loadVars, tpc,
                   merge_corpus, askVars>>

\* chunk texts are stripped and not empty (chunk_text); they may hold newlines
MergeText(i) == IF i = 1 THEN <<"t", NL, Digit(i)>> ELSE <<"t", Digit(i)>>
MergeCorpora ==
    UNION {{CorpusIndex(COMMON, [i \in 1..n |-> 0], [i \in 1..n |-> MergeText(i - 1)], m) :
              m \in [1..n -> [source_file : {"a.pdf", "b.pdf"}, chunk_id : 0..MaxChunkId]]} :
           n \in 1..MaxMergeChunks}

InitMerge ==
    /\ corpora = <<>>
    /\ embedding_model = "None"
    /\ n_constructed = 0
    /\ call = <<>>
    /\ searched = <<>>
    /\ found = <<>>
    /\ result = <<>>
    /\ outcome = "none"
    /\ storage = NoStorage
    /\ load_pc = "done"
    /\ load_i = 0
    /\ tpc = [t \in Threads |-> "idle"]
    /\ merge_corpus \in MergeCorpora
    /\ merge_idx = -1
    /\ merged = <<>>
    /\ NoAsk

NextMerge == \E idx \in 0..(MaxMergeChunks - 1) : MergeCall(idx)

SpecMerge == InitMerge /\ [][NextMerge]_vars

----------------------------------------------------------------------------
(* _search_single_corpus on its own, on the corpora a load has registered  *)

\* results = self._search_single_corpus(corpus, query_emb, top_k) for the i-th
\* registered corpus: the list it returns, or the IndexError of a list access
SearchCall(i, question, top_k) ==
    /\ load_pc = "done"
    /\ outcome = "none"
    /\ i \in DOMAIN corpora
    /\ call' = <<[question |-> question, bank |-> None, k |-> top_k]>>
    /\ searched' = <<corpora[i].name>>
    /\ IF SearchRaises(corpora[i], question, top_k)
       THEN /\ outcome' = "IndexError"
            /\ found' = <<>>
       ELSE /\ outcome' = "returned"
            /\ found' = search_single_corpus(corpora[i], question, top_k)
    /\ result' = <<>>
    /\ UNCHANGED <<corpora, embedding_model, n_constructed, loadVars, tpc, mergeVars, askVars>>

\* the storage roots of the search runs: those with fewer entries than the
\* longest listing of the load runs
InitSearch ==
    /\ corpora = <<>>
    /\ embedding_model = "None"
    /\ n_constructed = 0
    /\ call = <<>>
    /\ searched = <<>>
    /\ found = <<>>
    /\ result = <<>>
    /\ outcome = "none"
    /\ storage \in {s \in Storages : Len(s.entries) < MaxEntries}
    /\ load_pc = "start"
    /\ load_i = 0
    /\ tpc = [t \in Threads |-> "idle"]
    /\ merge_corpus = NoCorpus
    /\ merge_idx = -1
    /\ merged = <<>>
    /\ NoAsk

NextSearch ==
    \/ LoadStart
    \/ LoadEntry
    \/ LoadFinish
    \/ \E i \in 1..MaxEntries, question \in Questions, k \in 1..MaxK :
          SearchCall(i, question, k)
    \/ RetrieveReturn

SpecSearch == InitSearch /\ [][NextSearch]_vars

----------------------------------------------------------------------------
(* POST /ask (main.py) over the session store (session_store.py).  The     *)
(* handler is a plain def, run by FastAPI on a pool of threads; the store  *)
(* is one module object with no lock.  Each action is one access to the    *)
(* store or one call, which a thread switch can separate from the next.    *)

Whitespace == {" ", "\t", NL}
\* str.strip()
RECURSIVE LStrip(_)
LStrip(text) ==
    IF text # <<>> /\ Head(text) \in Whitespace THEN LStrip(Tail(text)) ELSE text
RECURSIVE RStrip(_)
RStrip(text) ==
    IF text # <<>> /\ text[Len(text)] \in Whitespace
    THEN RStrip(SubSeq(text, 1, Len(text) - 1)) ELSE text
Strip(text) == RStrip(LStrip(text))

\* sub in text
Contains(text, sub) ==
    \E i \in 0..(Len(text) - Len(sub)) : SubSeq(text, i + 1, i + Len(sub)) = sub

\* a or b, on Optional[str]
Or(a, b) == IF Truthy(a) THEN a ELSE b

\* self._sessions[session_id] = {"history": [], "bank": None}
NewSession(store, session_id) ==
    [id \in DOMAIN store \cup {session_id} |->
        IF id = session_id THEN [history |-> <<>>, bank |-> None] ELSE store[id]]

\* SessionStore.get_session run without a thread switch: the store after the
\* call (the session is created when it is missing)
get_session(store, session_id) ==
    IF session_id \in DOMAIN store THEN store ELSE NewSession(store, session_id)

\* SessionStore.add_message and SessionStore.set_bank: the store after the call
add_message(store, session_id, role, content) ==
    LET with == get_session(store, session_id)
    IN [with EXCEPT ![session_id].history = Append(@, [role |-> role, content |-> content])]
set_bank(store, session_id, bank) ==
    [get_session(store, session_id) EXCEPT ![session_id].bank = bank]

\* the auto-detection of lines 46-52: the first of available_banks whose
\* lowercase occurs in the lowercased question, or None
DetectBank(question) ==
    LET lower_q == Lower(question)
        hits == SelectSeq(available_banks, LAMBDA b: Contains(lower_q, Lower(b)))
    IN IF hits = <<>> THEN None ELSE Some(hits[1])

\* choose_bank with the auto-detection tried before the session's bank
choose_bank_detect_first(req_bank, session_bank, question) ==
    LET detected == DetectBank(question)
    IN IF Truthy(req_bank) THEN req_bank
       ELSE IF Truthy(detected) THEN detected
       ELSE session_bank

\* the bank of the request after lines 43-52
choose_bank(req_bank, session_bank, question) ==
    LET bank == Or(req_bank, session_bank)
    IN IF ~Truthy(bank)
       THEN (IF Truthy(DetectBank(question)) THEN DetectBank(question) ELSE bank)
       ELSE bank

\* the embedding of a question text (an external function of the text)
Embed(question) == Len(question) % (MaxVec + 1)

\* whether retrieval_engine.retrieve(question, bank, top_k_per_index) raises
RetrieveRaises(question, bank, top_k_per_index) ==
    LET corpora_to_search == CorporaToSearch(bank)
    IN \E i \in DOMAIN corpora_to_search :
          SearchRaises(corpora_to_search[i], Embed(question), top_k_per_index)

\* the request ends: its thread is free for the next one
Fails(t, cause) ==
    /\ failures' = failures \cup {<<ask[t].rid, cause>>}
    /\ ask' = [ask EXCEPT ![t] = IdleFrame]

\* a request arrives on thread t; lines 37-38.  `stored` notes the bank the
\* session holds when the request arrives.
AskStart(t, req) ==
    /\ load_pc = "done"
    /\ ask[t].pc = "idle"
    /\ n_asks' = n_asks + 1
    /\ IF Strip(req.question) = <<>>
       THEN /\ failures' = failures \cup {<<n_asks, "empty question">>}
            /\ UNCHANGED ask
       ELSE /\ ask' = [ask EXCEPT ![t] =
                         [pc |-> "get_bank", rid |-> n_asks, req |-> req,
                          stored |-> IF req.session_id \in DOMAIN sessions
                                     THEN sessions[req.session_id].bank ELSE None]]
            /\ UNCHANGED failures
    /\ UNCHANGED <<corpora, embedding_model, n_constructed, retrieveVars, loadVars, tpc,
                   mergeVars, sessions, appended_by>>

\* the frame of a request once session_bank is read and lines 43-52, which
\* touch nothing shared but the immutable registry, have run
Resolved(frame, session_bank) ==
    LET bank == choose_bank(frame.req.bank, session_bank, frame.req.question)
    IN [pc |-> IF Truthy(bank) THEN "set_bank" ELSE "retrieve",
        rid |-> frame.rid, req |-> frame.req, stored |-> frame.stored,
        session_bank |-> session_bank, bank |-> bank]

\* session_bank = session_store.get_bank(req.session_id), line 41: get_session
\* tests `session_id not in self._sessions`; a session that is there is read
AskGetBank(t) ==
    /\ ask[t].pc = "get_bank"
    /\ LET id == ask[t].req.session_id
       IN ask' = [ask EXCEPT ![t] =
                    IF id \in DOMAIN sessions
                    THEN Resolved(ask[t], sessions[id].bank)
                    ELSE [ask[t] EXCEPT !.pc = "create_session"]]
    /\ UNCHANGED <<corpora, embedding_model, n_constructed, retrieveVars, loadVars, tpc,
                   mergeVars, sessions, n_asks, appended_by, failures>>

\* the session was not there when tested: get_session stores a new one under
\* the id, over whatever another thread has stored there since the test
AskCreateSession(t) ==
    /\ ask[t].pc = "create_session"
    /\ LET id == ask[t].req.session_id
       IN /\ sessions' = NewSession(sessions, id)
          /\ appended_by' = [s \in DOMAIN appended_by |->
                               IF s = id THEN <<>> ELSE appended_by[s]]
          /\ ask' = [ask EXCEPT ![t] = Resolved(ask[t], None)]
    /\ UNCHANGED <<corpora, embedding_model, n_constructed, retrieveVars, loadVars, tpc,
                   mergeVars, n_asks, failures>>

\* session_store.set_bank(req.session_id, bank), line 55
AskSetBank(t) ==
    /\ ask[t].pc = "set_bank"
    /\ sessions' = set_bank(sessions, ask[t].req.session_id, ask[t].bank)
    /\ ask' = [ask EXCEPT ![t].pc = "retrieve"]
    /\ UNCHANGED <<corpora, embedding_model, n_constructed, retrieveVars, loadVars, tpc,
                   mergeVars, n_asks, appended_by, failures>>

\* retrieval_engine.retrieve(...), lines 58-65: the documents go on to the
\* prompt, an exception ends the request with status 500
AskRetrieve(t) ==
    /\ ask[t].pc = "retrieve"
    /\ load_embedding_model
    /\ IF RetrieveRaises(ask[t].req.question, ask[t].bank, ask[t].req.top_k_per_index)
       THEN Fails(t, "retrieval error")
       ELSE /\ ask' = [ask EXCEPT ![t].pc = "generate"]
            /\ UNCHANGED failures
    /\ UNCHANGED <<corpora, retrieveVars, loadVars, tpc, mergeVars, sessions, n_asks,
                   appended_by>>

\* generate_answer(...), lines 68-73: it reads the history of the session and
\* calls the generative model, which answers or raises
AskGenerate(t, answers) ==
    /\ ask[t].pc = "generate"
    /\ sessions' = get_session(sessions, ask[t].req.session_id)
    /\ IF answers
       THEN /\ ask' = [ask EXCEPT ![t].pc = "add_user"]
            /\ UNCHANGED failures
       ELSE Fails(t, "generation error")
    /\ UNCHANGED <<corpora, embedding_model, n_constructed, retrieveVars, loadVars, tpc,
                   mergeVars, n_asks, appended_by>>

\* appended_by after request rid appended to the history of session_id
Credited(session_id, rid) ==
    IF session_id \in DOMAIN appended_by
    THEN [appended_by EXCEPT ![session_id] = Append(@, rid)]
    ELSE appended_by @@ (session_id :> <<rid>>)

\* session_store.add_message(role="user", content=req.question), lines 76-80
AskAddUser(t) ==
    /\ ask[t].pc = "add_user"
    /\ sessions' = add_message(sessions, ask[t].req.session_id, "user", ask[t].req.question)
    /\ appended_by' = Credited(ask[t].req.session_id, ask[t].rid)
    /\ ask' = [ask EXCEPT ![t].pc = "add_assistant"]
    /\ UNCHANGED <<corpora, embedding_model, n_constructed, retrieveVars, loadVars, tpc,
                   mergeVars, n_asks, failures>>

\* the summary of the answer to a question (what the generative model wrote)
SummaryOf(question) == <<"r", "e", ":">> \o question

\* session_store.add_message(role="assistant", content=summary), lines 82-86
AskAddAssistant(t) ==
    /\ ask[t].pc = "add_assistant"
    /\ sessions' = add_message(sessions, ask[t].req.session_id, "assistant",
                               SummaryOf(ask[t].req.question))
    /\ appended_by' = Credited(ask[t].req.session_id, ask[t].rid)
    /\ ask' = [ask EXCEPT ![t].pc = "respond"]
    /\ UNCHANGED <<corpora, embedding_model, n_constructed, retrieveVars, loadVars, tpc,
                   mergeVars, n_asks, failures>>

\* lines 88-103: the sources the model wrote are mapped into SourceItem; a
\* source that is no JSON object of strings raises, else the answer is sent
AskRespond(t, well_formed) ==
    /\ ask[t].pc = "respond"
    /\ IF well_formed
       THEN /\ ask' = [ask EXCEPT ![t] = IdleFrame]
            /\ UNCHANGED failures
       ELSE Fails(t, "response error")
    /\ UNCHANGED <<corpora, embedding_model, n_constructed, retrieveVars, loadVars, tpc,
                   mergeVars, sessions, n_asks, appended_by>>

\* the inputs of the /ask runs
blank == <<" ", NL>>
fee == <<"f", "e", "e">>
Hdfc_fee == <<"H", "d", "f", "c", " ", "f", "e", "e">>
AskQuestions == {blank, fee, Hdfc_fee}
AskBanks == {None, Some(<<>>), Some(sbi)}
SessionIds == {"s1"}
Requests ==
    [question : AskQuestions, bank : AskBanks, session_id : SessionIds,
     top_k_per_index : {MaxK}]

\* the registries of the /ask runs: common, hdfc, sbi; sbi, hdfc, HDFC, Common;
\* and the registry of one corpus with fewer metadatas than vectors that the
\* load admits
ShortMetadatas ==
    CorpusIndex(sbi, <<0, 1>>, <<FixtureText(1, 0, 0), FixtureText(1, 0, 1)>>,
                <<FixtureMeta(1, 0, 0)>>)
AskRegistries ==
    {FixtureRegistry({1, 3, 5}, 0, FALSE, 1),
     FixtureRegistry({2, 3, 4, 5}, 1, TRUE, 1),
     <<ShortMetadatas>>}

InitAsk ==
    /\ corpora \in AskRegistries
    /\ embedding_model = "None"
    /\ n_constructed = 0
    /\ call = <<>>
    /\ searched = <<>>
    /\ found = <<>>
    /\ result = <<>>
    /\ outcome = "none"
    /\ storage = NoStorage
    /\ load_pc = "done"
    /\ load_i = 0
    /\ tpc = [t \in Threads |-> "idle"]
    /\ merge_corpus = NoCorpus
    /\ merge_idx = -1
    /\ merged = <<>>
    /\ NoAsk

\* the steps of a request under way
AskStep(t) ==
    \/ AskGetBank(t)
    \/ AskCreateSession(t)
    \/ AskSetBank(t)
    \/ AskRetrieve(t)
    \/ \E answers \in BOOLEAN : AskGenerate(t, answers)
    \/ AskAddUser(t)
    \/ AskAddAssistant(t)
    \/ \E well_formed \in BOOLEAN : AskRespond(t, well_formed)

\* requests arrive at any time, each on a free thread of the pool
NextAsk ==
    \E t \in Threads :
        \/ \E req \in Requests : n_asks < MaxAsks /\ AskStart(t, req)
        \/ AskStep(t)

SpecAsk == InitAsk /\ [][NextAsk]_vars

\* a sequence of requests: each arrives when the one before it has ended
NextAskSeq ==
    \E t \in Threads :
        \/ \E req \in Requests :
              /\ n_asks < MaxSeqAsks
              /\ \A u \in Threads : ask[u].pc = "idle"
              /\ AskStart(t, req)
        \/ AskStep(t)

SpecAskSeq == InitAsk /\ [][NextAskSeq]_vars

----------------------------------------------------------------------------
(* Vocabulary of the properties of retrieve                                *)

Registered == {corpora[i].name : i \in DOMAIN corpora}
IsScoped(n) == Lower(n) # COMMON
IsShared(n) == Lower(n) = COMMON
HasReturned == call # <<>> /\ outcome = "returned"
HintGiven == call # <<>> /\ Truthy(call[1].bank)
NoHint == call # <<>> /\ ~Truthy(call[1].bank)
HintKey == Lower(call[1].bank[1])
MatchesHint(n) == Lower(n) = HintKey
ResultBanks == {result[i].bank : i \in DOMAIN result}
SearchedSet == {searched[i] : i \in DOMAIN searched}
CorpusNamed(n) == corpora[CHOOSE i \in DOMAIN corpora : corpora[i].name = n]
CommonIfRegistered == IF COMMON \in Registered THEN <<COMMON>> ELSE <<>>
\* the least distance of a vector of corpus c to the query of the call
BestDistance(c) ==
    LET ds == {Distance(c.index[i], call[1].question) : i \in DOMAIN c.index}
    IN CHOOSE d \in ds : \A e \in ds : d <= e
NonEmptyScoped == {n \in Registered : IsScoped(n) /\ Len(CorpusNamed(n).index) > 0}
ScopedInResult == {b \in ResultBanks : IsScoped(b)}
Smaller(a, b) == IF a < b THEN a ELSE b

----------------------------------------------------------------------------
\* C1 as stated: with a hint that matches (ignoring case) a registered scoped
\* corpus B, every returned record is of B or of "common", and the corpora
\* searched are exactly B and "common" (B alone when "common" is not registered).
C1_AnyMatchingCorpus ==
    (HasReturned /\ HintGiven) =>
        \A B \in Registered :
            (IsScoped(B) /\ MatchesHint(B)) =>
                /\ ResultBanks \subseteq {B, COMMON}
                /\ SearchedSet = {B} \cup (Registered \cap {COMMON})

\* C1 amended: the same with B the first corpus in registry order whose
\* lowercased name is the lowercased hint; it is searched once, then "common".
C1_FirstMatchingCorpus ==
    (HasReturned /\ HintGiven) =>
        \A i \in DOMAIN corpora :
            (/\ IsScoped(corpora[i].name)
             /\ MatchesHint(corpora[i].name)
             /\ \A j \in 1..(i - 1) : ~MatchesHint(corpora[j].name)) =>
                /\ ResultBanks \subseteq {corpora[i].name, COMMON}
                /\ searched = <<corpora[i].name>> \o CommonIfRegistered

\* C1 witness: a hinted call with two registered names matching the hint, a
\* third bank with chunks registered, and records of the bank and of "common"
\* returned.
C1_Witness ==
    /\ HasReturned /\ HintGiven
    /\ Cardinality({n \in Registered : IsScoped(n) /\ MatchesHint(n)}) = 2
    /\ \E n \in NonEmptyScoped : ~MatchesHint(n)
    /\ COMMON \in ResultBanks
    /\ \E b \in ResultBanks : IsScoped(b)

----------------------------------------------------------------------------
\* C2: with more than MAX_BANKS_WHEN_NO_BANK_SPECIFIED banks registered and
\* no hint, the banks in the result are at most that many, as many as there are
\* banks with chunks up to that bound, and none of them has a worse best
\* record than a bank left out.
C2_AtMostMaxBanks ==
    (HasReturned /\ NoHint
     /\ Cardinality({n \in Registered : IsScoped(n)}) > MAX_BANKS_WHEN_NO_BANK_SPECIFIED) =>
        /\ Cardinality(ScopedInResult) <= MAX_BANKS_WHEN_NO_BANK_SPECIFIED
        /\ Cardinality(ScopedInResult)
             = Smaller(MAX_BANKS_WHEN_NO_BANK_SPECIFIED, Cardinality(NonEmptyScoped))
        /\ ScopedInResult \subseteq NonEmptyScoped
        /\ \A a \in ScopedInResult : \A b \in NonEmptyScoped \ ScopedInResult :
              BestDistance(CorpusNamed(a)) <= BestDistance(CorpusNamed(b))

\* C2 witness: an unhinted call on a registry with more banks holding chunks
\* than the bound, so that a bank is left out, and one left out for a strictly
\* worse best record.
C2_Witness ==
    /\ HasReturned /\ NoHint
    /\ Cardinality(NonEmptyScoped) > MAX_BANKS_WHEN_NO_BANK_SPECIFIED
    /\ Cardinality(ScopedInResult) = MAX_BANKS_WHEN_NO_BANK_SPECIFIED
    /\ \E a \in ScopedInResult : \E b \in NonEmptyScoped \ ScopedInResult :
          BestDistance(CorpusNamed(a)) < BestDistance(CorpusNamed(b))

----------------------------------------------------------------------------
\* The array position in its corpus of the chunk a record was made from
PositionOf(r) ==
    LET c == CorpusNamed(r.bank)
    IN CHOOSE i \in 0..(Len(c.metadatas) - 1) :
          /\ At(c.metadatas, i).source_file = r.document_name
          /\ At(c.metadatas, i).chunk_id = r.chunk_id
ResultKeys == {<<result[n].bank, PositionOf(result[n])>> : n \in DOMAIN result}
\* how many chunks of corpus c are nearer to the query than position i is
NearerThan(c, i) ==
    LET d(j) == Distance(At(c.index, j), call[1].question)
    IN Cardinality({j \in 0..(Len(c.index) - 1) : d(j) < d(i) \/ (d(j) = d(i) /\ j < i)})
\* the k nearest chunks of each corpus named in `names`
NearestOf(names) ==
    UNION {{<<n, i>> : i \in {j \in 0..(Len(CorpusNamed(n).index) - 1) :
                                NearerThan(CorpusNamed(n), j) < call[1].k}} : n \in names}
NonIncreasing == \A i, j \in DOMAIN result :
                    i < j => ~ScoreLess(result[i].score, result[j].score)
\* the banks of the result are as many of the best-scoring banks as the bound allows
BestBanksKept ==
    /\ Cardinality(ScopedInResult)
         = Smaller(MAX_BANKS_WHEN_NO_BANK_SPECIFIED, Cardinality(NonEmptyScoped))
    /\ ScopedInResult \subseteq NonEmptyScoped
    /\ \A a \in ScopedInResult : \A b \in NonEmptyScoped \ ScopedInResult :
          BestDistance(CorpusNamed(a)) <= BestDistance(CorpusNamed(b))

\* C3 as stated: an unhinted result is exactly the k best records of the
\* shared corpus and of each of the best-scoring banks up to the bound, each
\* once, by score non-increasing; a shared corpus that is registered and holds
\* chunks has a record in it.
C3_SharedPlusBestBanks ==
    (HasReturned /\ NoHint) =>
        /\ NonIncreasing
        /\ BestBanksKept
        /\ ResultKeys = NearestOf({n \in Registered : IsShared(n)} \cup ScopedInResult)
        /\ Len(result) = Cardinality(ResultKeys)
        /\ \A n \in Registered :
              (IsShared(n) /\ Len(CorpusNamed(n).index) > 0) => n \in ResultBanks

\* C3 where it holds (a supplement, no claim's formula): the same with the
\* shared corpus taken to be the one stored under exactly "common".
FusionExactForCommonKey ==
    (HasReturned /\ NoHint) =>
        /\ NonIncreasing
        /\ BestBanksKept
        /\ ResultKeys = NearestOf((Registered \cap {COMMON}) \cup ScopedInResult)
        /\ Len(result) = Cardinality(ResultKeys)
        /\ (COMMON \in Registered /\ Len(CorpusNamed(COMMON).index) > 0)
              => COMMON \in ResultBanks

----------------------------------------------------------------------------
\* C6 as stated: with no hint every corpus held in the registry is searched
\* exactly once, whatever its name.
C6_EveryCorpusSearchedOnce ==
    (HasReturned /\ NoHint) =>
        /\ SearchedSet = Registered
        /\ Len(searched) = Cardinality(Registered)

----------------------------------------------------------------------------
\* C7: a non-empty hint that matches no registered name raises nothing and
\* searches nothing but the shared corpus: "common" when it is registered,
\* every record returned is of the shared corpus, and nothing is returned when
\* no shared corpus is registered.
C7_UnmatchedHintSharedOnly ==
    (call # <<>> /\ outcome # "none" /\ HintGiven
     /\ \A n \in Registered : ~MatchesHint(n)) =>
        /\ outcome = "returned"
        /\ \A n \in SearchedSet : IsShared(n)
        /\ Len(searched) <= 1
        /\ COMMON \in Registered => searched = <<COMMON>>
        /\ \A b \in ResultBanks : IsShared(b)
        /\ (\A n \in Registered : ~IsShared(n)) => result = <<>>

\* C7 witness: an unmatched hint on a registry with banks that hold chunks,
\* answered with records of "common" only.
C7_Witness ==
    /\ HasReturned /\ HintGiven
    /\ \A n \in Registered : ~MatchesHint(n)
    /\ NonEmptyScoped # {}
    /\ result # <<>>
    /\ ResultBanks = {COMMON}

----------------------------------------------------------------------------
\* C8 as stated: every registered bank n whose lowercased name is the
\* lowercased hint is searched.
C8_EveryMatchSearched ==
    (HasReturned /\ HintGiven) =>
        \A n \in Registered : (IsScoped(n) /\ MatchesHint(n)) => n \in SearchedSet

\* C8 amended: of the registered banks whose lowercased name is the lowercased
\* hint, the first in registry order is searched and no other; so bank n is
\* searched whenever no other registered name differs from n in case only.
C8_FirstMatchSearched ==
    (HasReturned /\ HintGiven) =>
        \A i \in DOMAIN corpora :
            (IsScoped(corpora[i].name) /\ MatchesHint(corpora[i].name)) =>
                (corpora[i].name \in SearchedSet
                    <=> \A j \in 1..(i - 1) : ~MatchesHint(corpora[j].name))

\* C8 witness: the hint is no registered name as written, the bank it
\* resolves to is stored under a name that is not lowercase, and records of
\* that bank are returned.
C8_Witness ==
    /\ HasReturned /\ HintGiven
    /\ call[1].bank[1] \notin Registered
    /\ \E n \in Registered :
          /\ IsScoped(n) /\ MatchesHint(n) /\ n # Lower(n)
          /\ n \in SearchedSet
          /\ n \in ResultBanks

----------------------------------------------------------------------------
(* Vocabulary of the properties of _merge_neighbors                        *)

MergeMeta(i) == At(merge_corpus.metadatas, i)
MergeChunk(i) == At(merge_corpus.chunks, i)
PrecedingQualifies ==
    /\ merge_idx - 1 >= 0
    /\ MergeMeta(merge_idx - 1).source_file = MergeMeta(merge_idx).source_file
    /\ MergeMeta(merge_idx - 1).chunk_id = MergeMeta(merge_idx).chunk_id - 1
FollowingQualifies ==
    /\ merge_idx + 1 < Len(merge_corpus.chunks)
    /\ MergeMeta(merge_idx + 1).source_file = MergeMeta(merge_idx).source_file
    /\ MergeMeta(merge_idx + 1).chunk_id = MergeMeta(merge_idx).chunk_id + 1
\* three chunks of one file with chunk_id 0, 1, 2, merged at position 1
ThreeChunkScenario ==
    /\ merge_idx = 1
    /\ Len(merge_corpus.chunks) = 3
    /\ \A i \in 0..2 : MergeMeta(i) = [source_file |-> "a.pdf", chunk_id |-> i]

\* C4: _merge_neighbors returns the preceding chunk and a newline if and only
\* if the chunk at idx-1 exists, is of the same source_file and has the
\* chunk_id one less, then the chunk itself, then a newline and the following
\* chunk if and only if the chunk at idx+1 exists, is of the same source_file
\* and has the chunk_id one more; with neither it returns the chunk as it is,
\* and for chunk_id 0,1,2 of one file at idx 1 chunk0 \n chunk1 \n chunk2.
C4_MergedIsQualifyingNeighbours ==
    merge_idx # -1 =>
        /\ merged = (IF PrecedingQualifies THEN MergeChunk(merge_idx - 1) \o <<NL>> ELSE <<>>)
                    \o MergeChunk(merge_idx)
                    \o (IF FollowingQualifies THEN <<NL>> \o MergeChunk(merge_idx + 1) ELSE <<>>)
        /\ (~PrecedingQualifies /\ ~FollowingQualifies) => merged = MergeChunk(merge_idx)
        /\ ThreeChunkScenario =>
              merged = MergeChunk(0) \o <<NL>> \o MergeChunk(1) \o <<NL>> \o MergeChunk(2)

\* C4 witness: the three-chunk scenario, merged.
C4_Witness == merge_idx # -1 /\ ThreeChunkScenario /\ Len(merged) > Len(MergeChunk(1))

----------------------------------------------------------------------------
\* C5 as stated: however the request threads interleave, the embedding model
\* is constructed at most once.
C5_ModelConstructedOnce == n_constructed <= 1

----------------------------------------------------------------------------
(* Vocabulary of the properties of the load                                *)

HoldsBothArtifacts(e) == e.is_dir /\ e.has_index /\ e.has_meta
Decodable(e) == e.index_ok /\ e.meta_ok
LoadFailed == load_pc \notin {"start", "loop", "done"}

\* C9: a finished load leaves in the registry exactly the folders of the
\* storage root that hold both index.faiss and metadata.pkl, each under its
\* folder name with its own artifacts; plain files and folders missing an
\* artifact never end the load (it fails only on a missing root or on a folder
\* holding both artifacts of which one cannot be decoded); a missing root
\* fails the load with nothing registered.
C9_RegistryIsFoldersWithBothArtifacts ==
    /\ load_pc = "done" =>
          LET kept == SelectSeq(storage.entries, HoldsBothArtifacts)
          IN /\ Len(corpora) = Len(kept)
             /\ \A i \in DOMAIN kept :
                   corpora[i] = [name |-> kept[i].name, index |-> kept[i].index,
                                 chunks |-> kept[i].chunks, metadatas |-> kept[i].metadatas]
    /\ (~storage.exists /\ load_pc # "start") =>
          (load_pc = "FileNotFoundError" /\ corpora = <<>>)
    /\ (LoadFailed /\ storage.exists) =>
          /\ HoldsBothArtifacts(storage.entries[load_i + 1])
          /\ ~Decodable(storage.entries[load_i + 1])

\* C9 witness: a finished load over a root with a plain file, a folder
\* missing an artifact and a folder with both: only the last is registered.
C9_Witness ==
    /\ load_pc = "done"
    /\ Len(corpora) = 1
    /\ \E i \in DOMAIN storage.entries : ~storage.entries[i].is_dir
    /\ \E i \in DOMAIN storage.entries :
          /\ storage.entries[i].is_dir
          /\ storage.entries[i].has_index # storage.entries[i].has_meta

----------------------------------------------------------------------------
\* C10 as stated: every corpus in the registry after the load has as many
\* chunks as metadatas as vectors in its index (a folder whose artifacts are
\* not aligned fails the load and is not registered).
C10_LoadedCorporaAligned ==
    load_pc = "done" =>
        \A i \in DOMAIN corpora :
            /\ Len(corpora[i].chunks) = Len(corpora[i].metadatas)
            /\ Len(corpora[i].chunks) = Len(corpora[i].index)

----------------------------------------------------------------------------
(* Vocabulary of the properties of _search_single_corpus                   *)

SearchDone == call # <<>> /\ outcome # "none" /\ Len(searched) = 1
SearchedCorpus == CorpusNamed(searched[1])
\* one metadata and one chunk for every vector of the index
Aligned(c) == Len(c.chunks) = Len(c.index) /\ Len(c.metadatas) = Len(c.index)
\* the found records are min(k, N) records, each made from a position 0..N-1
MinOfKAndNRecords ==
    LET c == SearchedCorpus
        N == Len(c.index)
    IN /\ outcome = "returned"
       /\ Len(found) = Smaller(call[1].k, N)
       /\ \A n \in DOMAIN found :
             \E i \in 0..(N - 1) :
                found[n] = ResultRecord(c, Distance(At(c.index, i), call[1].question), i)

\* C11 as stated: for every registered corpus with N vectors and every k >= 1
\* _search_single_corpus raises nothing and returns exactly min(k, N)
\* records, each made from an array position 0..N-1 (no record for a
\* sentinel -1).
C11_MinOfKAndN == SearchDone => MinOfKAndNRecords

\* C11 where it holds (a supplement, no claim's formula): the same for the
\* corpora that have one metadata and one chunk for every vector.
SearchExactOnAlignedCorpus == (SearchDone /\ Aligned(SearchedCorpus)) => MinOfKAndNRecords

\* a search with k above the number of vectors, answered with N records
SearchBeyondIndexSize ==
    /\ SearchDone /\ outcome = "returned"
    /\ call[1].k > Len(SearchedCorpus.index)
    /\ Len(found) = Len(SearchedCorpus.index)
    /\ found # <<>>

----------------------------------------------------------------------------
CallDone == call # <<>> /\ outcome # "none"

\* C12: on a registry of zero corpora retrieve raises nothing, searches
\* nothing and returns the empty list, whatever the question, the hint
\* (None, "", a name) and k.
C12_EmptyRegistryEmptyResult ==
    (CallDone /\ corpora = <<>>) =>
        /\ outcome = "returned"
        /\ searched = <<>>
        /\ found = <<>>
        /\ result = <<>>

\* C12 witness: a call with a hint answered on the empty registry.
C12_Witness == CallDone /\ corpora = <<>> /\ HintGiven /\ outcome = "returned" /\ result = <<>>
\* the same for a call without a hint (the other branch of retrieve)
EmptyRegistryUnhinted == CallDone /\ corpora = <<>> /\ NoHint /\ outcome = "returned"

----------------------------------------------------------------------------
\* how many records the searches of the corpora named in `names` give: for
\* each, the lesser of k and its number of vectors
RECURSIVE RecordsOfSearches(_)
RecordsOfSearches(names) ==
    IF names = <<>> THEN 0
    ELSE Smaller(call[1].k, Len(CorpusNamed(Head(names)).index))
         + RecordsOfSearches(Tail(names))

\* C13: a hinted retrieve returns the whole working set: every record the
\* searches of the selected corpora found (the k nearest chunks of each, as
\* many records as the searches gave), by score non-increasing and at most
\* k times the number of corpora searched; the cap removes no record.
C13_HintedReturnsWholeWorkingSet ==
    (HasReturned /\ HintGiven) =>
        /\ result = found
        /\ NonIncreasing
        /\ Len(result) <= call[1].k * Len(searched)
        /\ Len(result) = RecordsOfSearches(searched)
        /\ ResultKeys = NearestOf(SearchedSet)

\* C13 witness: a hinted call that searched a bank and "common", one of them
\* with fewer than k vectors and the other with k or more, so that more than
\* k and fewer than 2k records are returned.
C13_Witness ==
    /\ HasReturned /\ HintGiven
    /\ Len(searched) = 2
    /\ searched[1] # searched[2]
    /\ Len(result) > call[1].k
    /\ Len(result) < call[1].k * Len(searched)

----------------------------------------------------------------------------
\* no corpus is searched twice and no chunk of a corpus is returned twice
NoChunkTwice ==
    /\ \A i, j \in DOMAIN searched : searched[i] = searched[j] => i = j
    /\ Len(result) = Cardinality(ResultKeys)

\* C16 as stated: whatever the registry, the question, k and the hint (none,
\* a bank's name, an unknown name or the name of the shared corpus), each
\* selected corpus is searched once and the returned list holds no two
\* records of the same chunk (same corpus, same array position).
C16_NoChunkTwice == HasReturned => NoChunkTwice

\* C16 where it holds (a supplement, no claim's formula): for every call whose
\* hint, lowercased, is not "common" while "common" is registered.
NoChunkTwiceUnlessHintIsCommon ==
    (HasReturned /\ ~(HintGiven /\ HintKey = COMMON /\ COMMON \in Registered)) => NoChunkTwice

\* a call with the hint "common" that returned a chunk of "common" twice
CommonChunkReturnedTwice ==
    /\ HasReturned /\ HintGiven /\ HintKey = COMMON
    /\ searched = <<COMMON, COMMON>>
    /\ Len(result) = 2 * Cardinality(ResultKeys)
    /\ result # <<>>

----------------------------------------------------------------------------
(* Vocabulary of the properties of /ask                                    *)

HistoryOf(id) == sessions[id].history
\* the requests that ended in one of the three errors before the history is
\* touched: status 400 on an empty question, an exception of retrieve, an
\* exception of generate_answer
FailedEarly ==
    {f[1] : f \in {g \in failures :
                     g[2] \in {"empty question", "retrieval error", "generation error"}}}
\* the requests whose answer has not been generated yet
NotYetAnswered ==
    {ask[t].rid : t \in {u \in Threads : ask[u].pc \in {"get_bank", "create_session",
                                                         "set_bank", "retrieve",
                                                         "generate"}}}
\* every history entry was appended by a request that had its answer and did
\* not fail early
AppendedAfterAnswer ==
    \A id \in DOMAIN appended_by :
        \A i \in DOMAIN appended_by[id] :
            appended_by[id][i] \notin (FailedEarly \cup NotYetAnswered)
\* in every history each user message is followed by the assistant message of
\* the same request (unless it is the last entry, its request being between
\* its two appends), and each assistant message follows the user message of
\* its request
PairsAdjacent ==
    \A id \in DOMAIN appended_by :
        LET h == HistoryOf(id)
            by == appended_by[id]
        IN \A i \in DOMAIN h :
              /\ (h[i].role = "user" /\ i < Len(h)) =>
                    (h[i + 1].role = "assistant" /\ by[i + 1] = by[i])
              /\ h[i].role = "assistant" =>
                    (i > 1 /\ h[i - 1].role = "user" /\ by[i - 1] = by[i])

\* C15 as stated: however the /ask requests on one session interleave, a
\* request appends only after its answer was generated, a request that failed
\* on an empty question, in retrieval or in generation has appended nothing,
\* and the history is a sequence of (user, assistant) pairs, the assistant
\* message of a request right after its own user message.
C15_PairsNeverInterleaved == AppendedAfterAnswer /\ PairsAdjacent

\* C15 where it holds (a supplement, no claim's formula): the appends come
\* after the answer, and never from a request that failed early.
AppendsOnlyAfterAnswer == AppendedAfterAnswer

\* two requests on one session whose messages alternate: user, user,
\* assistant, assistant
HistoryInterleaved ==
    \E id \in DOMAIN appended_by :
        /\ Len(HistoryOf(id)) = 4
        /\ HistoryOf(id)[1].role = "user" /\ HistoryOf(id)[2].role = "user"
        /\ HistoryOf(id)[3].role = "assistant" /\ HistoryOf(id)[4].role = "assistant"
        /\ appended_by[id][1] # appended_by[id][2]

\* a request that ended in an error after it appended both its messages
FailedAfterAppending ==
    \E id \in DOMAIN appended_by : \E i \in DOMAIN appended_by[id] :
        <<appended_by[id][i], "response error">> \in failures

----------------------------------------------------------------------------
\* the threads whose request has its bank: past lines 41-52
WithBank == {t \in Threads : ask[t].pc \in {"set_bank", "retrieve", "generate", "add_user",
                                            "add_assistant", "respond"}}
\* past line 55 as well: the bank is the one retrieve is called with
Retrieving == {t \in WithBank : ask[t].pc # "set_bank"}
\* the registered scoped corpora whose lowercased name occurs in the
\* lowercased question, as positions of the registry
Mentioned(question) ==
    {i \in DOMAIN corpora : /\ IsScoped(corpora[i].name)
                            /\ Contains(Lower(question), Lower(corpora[i].name))}
\* the bank of a request is its own bank if given, else the bank the session
\* held when it arrived, else the first registered scoped corpus mentioned in
\* the question, else none
BankByPriority(f) ==
    IF Truthy(f.req.bank) THEN f.bank = f.req.bank
    ELSE IF Truthy(f.stored) THEN f.bank = f.stored
    ELSE IF Mentioned(f.req.question) # {}
         THEN \E i \in Mentioned(f.req.question) :
                 /\ f.bank = Some(corpora[i].name)
                 /\ \A j \in Mentioned(f.req.question) : i <= j
    ELSE ~Truthy(f.bank)
\* a session that holds a bank holds one after the step
BankStaysSet ==
    \A id \in DOMAIN sessions :
        Truthy(sessions[id].bank) => (id \in DOMAIN sessions' /\ Truthy(sessions'[id].bank))

BankLostToNewSession ==
    \E t \in Threads :
        /\ ask[t].pc \in {"generate", "add_user", "add_assistant", "respond"}
        /\ Truthy(ask[t].bank)
        /\ ~Truthy(sessions[ask[t].req.session_id].bank)

====
